---- MODULE Spec2Model ----
(***************************************************************************)
(* A model of the teaching examples of FastAPI-Learning-Notes:             *)
(*   - SimpleBaseModel (the BaseModel example): annotation-driven          *)
(*     validation and coercion of keyword arguments, and model_dump;       *)
(*   - the requests.Session walk-throughs (the session_post and            *)
(*     session_headers notes): session defaults against per-call          *)
(*     arguments.                                                          *)
(***************************************************************************)
EXTENDS Integers, Sequences, FiniteSets, TLC

\* ---------------------------------------------------------------- bounds

\* Longest text value drawn over Alphabet for a keyword argument.
MaxLen == 2

\* ------------------------------------------------------- Python values

\* A Python value: its runtime type name t, its characters s when it is a
\* str, its number n when it is an int or a bool (True is 1).
StrV(s) == [t |-> "str", s |-> s, n |-> 0]
IntV(n) == [t |-> "int", s |-> <<>>, n |-> n]
NoneV == [t |-> "NoneType", s |-> <<>>, n |-> 0]
TrueV == [t |-> "bool", s |-> <<>>, n |-> 1]

\* type(value).__name__
TypeName(value) == value.t

\* The characters text arguments are drawn from: a digit, a sign, a letter.
Alphabet == {"2", "-", "a"}

RECURSIVE SeqsUpTo(_)
SeqsUpTo(k) ==
    IF k = 0 THEN {<<>>}
    ELSE LET shorter == SeqsUpTo(k - 1)
         IN  shorter \cup {Append(s, c) : s \in {x \in shorter : Len(x) = k - 1}, c \in Alphabet}

\* The texts of the usage test (lines 95-96; the two characters of the name
\* are written in pinyin), and numerals with blanks around and inside.
ExampleTexts == {<<"2", "5">>, <<"Zhang", "San">>, <<"2", " ">>, <<" ", "-", "2">>, <<"2", " ", "2">>}

Texts == SeqsUpTo(MaxLen) \cup ExampleTexts

Values == {StrV(s) : s \in Texts} \cup {IntV(5), NoneV, TrueV}

\* ------------------------------------------------------------ int(str)

Whitespace == {" "}

DigitVal(c) ==
    CASE c = "0" -> 0 [] c = "1" -> 1 [] c = "2" -> 2 [] c = "3" -> 3
      [] c = "4" -> 4 [] c = "5" -> 5 [] c = "6" -> 6 [] c = "7" -> 7
      [] c = "8" -> 8 [] c = "9" -> 9

IsDigit(c) == c \in {"0", "1", "2", "3", "4", "5", "6", "7", "8", "9"}

RECURSIVE LStrip(_)
LStrip(s) == IF s # <<>> /\ Head(s) \in Whitespace THEN LStrip(Tail(s)) ELSE s

RECURSIVE RStrip(_)
RStrip(s) ==
    IF s # <<>> /\ s[Len(s)] \in Whitespace THEN RStrip(SubSeq(s, 1, Len(s) - 1)) ELSE s

Strip(s) == RStrip(LStrip(s))

RECURSIVE DigitsValue(_)
DigitsValue(d) ==
    IF d = <<>> THEN 0
    ELSE 10 * DigitsValue(SubSeq(d, 1, Len(d) - 1)) + DigitVal(d[Len(d)])

\* The digits of a stripped numeral, after its optional sign.
Unsigned(t) == IF t # <<>> /\ Head(t) \in {"-", "+"} THEN Tail(t) ELSE t

\* int(s) raises ValueError unless s, stripped, is an optional sign and
\* one or more decimal digits.
IntParses(s) ==
    LET d == Unsigned(Strip(s))
    IN  d # <<>> /\ \A i \in 1..Len(d) : IsDigit(d[i])

\* IntOfText without the sign: the numeral read as its digits alone.
IntOfTextUnsigned(s) == DigitsValue(Unsigned(Strip(s)))

\* int(s) when it parses.
IntOfText(s) ==
    LET t == Strip(s)
    IN  IF Head(t) = "-" THEN 0 - DigitsValue(Unsigned(t)) ELSE DigitsValue(Unsigned(t))

\* --------------------------------------------------------- type hints

\* A declared type hint: a plain class, a typing.Union / typing.Optional
\* (k = "typing.Union"), or a union written X | Y (k = "X|Y"); args are the
\* alternatives in the order written.
Plain(t) == [k |-> "plain", args |-> <<t>>]
TypingUnion(args) == [k |-> "typing.Union", args |-> args]
PipeUnion(args) == [k |-> "X|Y", args |-> args]

Hints ==
    {Plain("str"), Plain("int"),
     TypingUnion(<<"int", "NoneType">>), TypingUnion(<<"NoneType", "str">>),
     PipeUnion(<<"int", "NoneType">>), PipeUnion(<<"str", "NoneType">>)}

\* typing.get_origin(type_hint), line 62. An X | Y union is a
\* types.UnionType up to Python 3.13 and a typing.Union from 3.14 on
\* (unified): the interpreter decides.
GetOrigin(type_hint, unified) ==
    CASE type_hint.k = "plain" -> "None"
      [] type_hint.k = "typing.Union" -> "typing.Union"
      [] type_hint.k = "X|Y" -> IF unified THEN "typing.Union" ELSE "types.UnionType"

\* The first alternative that is not NoneType (lines 67-69); 0 when none.
FirstNonNone(args) ==
    LET idx == {i \in 1..Len(args) : args[i] # "NoneType"}
    IN  IF idx = {} THEN 0 ELSE CHOOSE i \in idx : \A j \in idx : i <= j

\* _get_actual_type, lines 57-70.
GetActualType(type_hint, unified) ==
    IF GetOrigin(type_hint, unified) = "typing.Union" /\ FirstNonNone(type_hint.args) # 0
    THEN Plain(type_hint.args[FirstNonNone(type_hint.args)])
    ELSE type_hint

\* issubclass(type(value), cls) for the classes here: bool is a subclass of
\* int.
IsInstanceOfClass(value, cls) ==
    TypeName(value) = cls \/ (cls = "int" /\ TypeName(value) = "bool")

\* IsInstance without the check: every value passes.
IsInstanceAny(value, actual_type) == TRUE

\* isinstance(value, actual_type), line 52: a class, or a types.UnionType
\* (any alternative).
IsInstance(value, actual_type) ==
    \E i \in 1..Len(actual_type.args) : IsInstanceOfClass(value, actual_type.args[i])

\* ----------------------------------------------------------- exceptions

NoExc == [type |-> "none", tag |-> "none", a |-> <<>>, b |-> <<>>]

\* raise ValueError(field is required), line 35.
RequiredError(field_name) ==
    [type |-> "ValueError", tag |-> "required", a |-> <<field_name>>, b |-> <<>>]

\* ConvertError without the except clause: the ValueError of int() escapes.
ConvertErrorAsValueError(value, actual_type) ==
    [type |-> "ValueError", tag |-> "convert", a |-> value.s, b |-> actual_type.args]

\* raise TypeError(cannot convert 'value' to int), line 49.
ConvertError(value, actual_type) ==
    [type |-> "TypeError", tag |-> "convert", a |-> value.s, b |-> actual_type.args]

\* The f-string of line 53 reads actual_type.__name__: a class has it, a
\* types.UnionType has not, and the read raises AttributeError instead of
\* the TypeError being built.
MismatchError(value, actual_type) ==
    IF actual_type.k = "plain"
    THEN [type |-> "TypeError", tag |-> "expected", a |-> actual_type.args,
          b |-> <<TypeName(value)>>]
    ELSE [type |-> "AttributeError", tag |-> "__name__", a |-> <<"types.UnionType">>,
          b |-> <<>>]

\* _validate_type, lines 37-55: the value returned, or the exception.
ValidateType(value, expected_type, unified) ==
    LET actual_type == GetActualType(expected_type, unified)
    IN  IF actual_type = Plain("int") /\ IsInstanceOfClass(value, "str")
        THEN IF IntParses(value.s)
             THEN [value |-> IntV(IntOfText(value.s)), exc |-> NoExc]
             ELSE [value |-> NoneV, exc |-> ConvertError(value, actual_type)]
        ELSE IF ~IsInstance(value, actual_type)
             THEN [value |-> NoneV, exc |-> MismatchError(value, actual_type)]
             ELSE [value |-> value, exc |-> NoExc]

\* ------------------------------------------------- class declarations

\* One annotated field of a class body: name: hint, or name: hint = default.
Field(name, hint) == [name |-> name, hint |-> hint, hasDefault |-> FALSE, default |-> NoneV]
FieldDefault(name, hint, default) ==
    [name |-> name, hint |-> hint, hasDefault |-> TRUE, default |-> default]

\* class User(SimpleBaseModel), lines 88-91; __annotations__ keeps the
\* order of the class body.
User ==
    <<Field("name", Plain("str")),
      Field("age", Plain("int")),
      FieldDefault("email", PipeUnion(<<"str", "NoneType">>), NoneV)>>

\* Other subclasses: a first field name and a second field age, each with or
\* without a class-level default.
NameFields ==
    {Field("name", h) : h \in {Plain("str"), Plain("int")}}
        \cup {FieldDefault("name", h, d) : h \in {Plain("str"), Plain("int")},
                                            d \in {NoneV, StrV(<<"a">>)}}

AgeFields ==
    {Field("age", h) : h \in Hints}
        \cup {FieldDefault("age", h, d) : h \in Hints, d \in {NoneV, IntV(5)}}

Classes == {User} \cup {<<f1, f2>> : f1 \in NameFields, f2 \in AgeFields}

\* A keyword that is not passed, an attribute that is not set.
Absent == [t |-> "absent", s |-> <<>>, n |-> 0]

KwNames == {"name", "age", "email"}

NameValues == {StrV(<<"Zhang", "San">>), StrV(<<"2">>), IntV(5)}
EmailValues == {NoneV, StrV(<<"a">>), IntV(5)}

\* **kwargs of a construction: every keyword passed or not; a keyword the
\* class does not declare is passed like any other.
KwargsSet ==
    {kw \in [KwNames -> Values \cup {Absent}] :
        /\ kw["name"] \in NameValues \cup {Absent}
        /\ kw["email"] \in EmailValues \cup {Absent}}

\* -------------------------------------------------------- SimpleBaseModel

\* The declaration of field_name in the class, as a set (empty when the
\* class does not declare it).
DeclsOf(annotations, field_name) ==
    {annotations[i] : i \in {j \in 1..Len(annotations) : annotations[j].name = field_name}}

\* HasAttr without the required-field check: every field counts as set.
HasAttrAlways(annotations, attrs, field_name) == TRUE

\* HasAttr that looks at the instance only, not at the class defaults.
HasAttrInstanceOnly(annotations, attrs, field_name) == attrs[field_name] # Absent

\* hasattr(self, field_name), lines 30 and 79: an instance attribute, or a
\* class attribute (the default of the class body).
HasAttr(annotations, attrs, field_name) ==
    \/ attrs[field_name] # Absent
    \/ \E f \in DeclsOf(annotations, field_name) : f.hasDefault

\* GetAttr with the class default shadowing the instance attribute.
GetAttrClassFirst(annotations, attrs, field_name) ==
    IF \E f \in DeclsOf(annotations, field_name) : f.hasDefault
    THEN (CHOOSE f \in DeclsOf(annotations, field_name) : f.hasDefault).default
    ELSE attrs[field_name]

\* getattr(self, field_name), line 80: the instance attribute shadows the
\* class attribute.
GetAttr(annotations, attrs, field_name) ==
    IF attrs[field_name] # Absent THEN attrs[field_name]
    ELSE (CHOOSE f \in DeclsOf(annotations, field_name) : f.hasDefault).default

\* The loop of __init__, lines 24-35, from field i on: the instance
\* attributes set and the exception raised, if any.
RECURSIVE InitLoop(_, _, _, _, _)
InitLoop(annotations, i, kw, attrs, unified) ==
    IF i > Len(annotations) THEN [attrs |-> attrs, exc |-> NoExc]
    ELSE LET field_name == annotations[i].name
             field_type == annotations[i].hint
         IN  IF kw[field_name] # Absent
             THEN LET validated == ValidateType(kw[field_name], field_type, unified)
                  IN  IF validated.exc # NoExc
                      THEN [attrs |-> attrs, exc |-> validated.exc]
                      ELSE InitLoop(annotations, i + 1, kw,
                                    [attrs EXCEPT ![field_name] = validated.value], unified)
             ELSE IF HasAttr(annotations, attrs, field_name)
                  THEN InitLoop(annotations, i + 1, kw, attrs, unified)
                  ELSE [attrs |-> attrs, exc |-> RequiredError(field_name)]

\* The loop of model_dump, lines 78-80, from field i on: the dictionary as
\* the sequence of its items in insertion order.
RECURSIVE DumpLoop(_, _, _, _)
DumpLoop(annotations, i, attrs, result) ==
    IF i > Len(annotations) THEN result
    ELSE LET field_name == annotations[i].name
         IN  IF HasAttr(annotations, attrs, field_name)
             THEN DumpLoop(annotations, i + 1, attrs,
                           Append(result, [key |-> field_name,
                                           value |-> GetAttr(annotations, attrs, field_name)]))
             ELSE DumpLoop(annotations, i + 1, attrs, result)

NoAttrs == [n \in KwNames |-> Absent]

\* ------------------------------------------------------ requests.Session

\* The header names of the walk-throughs: those a session sets as defaults
\* (session_post lines 33-38 and 253-257) and those a single call passes
\* (lines 262-265).
SessionHeaderNames == {"Authorization", "User-Agent", "Content-Type"}
CallHeaderNames == {"Authorization", "X-Request-ID"}

\* The value each walk-through gives a header at the session level
\* (session_post lines 254-255) and at the call level (lines 263-264).
SessionValue(name) ==
    CASE name = "Authorization" -> "Bearer default_token"
      [] name = "User-Agent" -> "MyApp/1.0"
      [] name = "Content-Type" -> "application/json"
CallValue(name) ==
    IF name = "Authorization" THEN "Bearer override_token" ELSE "req_123"

\* The dictionaries session.headers.update and headers= are given.
SessionDicts == {[n \in S |-> SessionValue(n)] : S \in SUBSET SessionHeaderNames}
CallDicts == {[n \in S |-> CallValue(n)] : S \in SUBSET CallHeaderNames}

\* An optional argument: not passed (None), or passed with a value.
NotGiven == [given |-> FALSE, dict |-> <<>>, secs |-> 0]
GivenDict(d) == [given |-> TRUE, dict |-> d, secs |-> 0]
GivenSecs(t) == [given |-> TRUE, dict |-> <<>>, secs |-> t]

\* requests.Session(): the headers of a new session are the defaults of
\* the library.
LibraryHeaders ==
    [n \in {"User-Agent", "Accept-Encoding", "Accept", "Connection"} |->
        CASE n = "User-Agent" -> "python-requests"
          [] n = "Accept-Encoding" -> "gzip, deflate"
          [] n = "Accept" -> "*/*"
          [] n = "Connection" -> "keep-alive"]

\* dict.update: the entries of d replace or extend those of headers.
Update(headers, d) ==
    [n \in DOMAIN headers \cup DOMAIN d |-> IF n \in DOMAIN d THEN d[n] ELSE headers[n]]

\* MergeSetting that lets the headers of a call stand in for the session's:
\* a call that passes headers is sent with those alone.
MergeSettingCallOnly(request_setting, session_setting) ==
    IF ~request_setting.given THEN session_setting
    ELSE request_setting.dict

\* MergeSetting with the priority reversed: the session's value wins.
MergeSettingSessionWins(request_setting, session_setting) ==
    IF ~request_setting.given THEN session_setting
    ELSE Update(request_setting.dict, session_setting)

\* The merge session.post(..., headers=...) makes of the headers of the call
\* and of the session (session_post lines 260-273): no headers passed, the
\* session's; otherwise the session's updated with the call's.
MergeSetting(request_setting, session_setting) ==
    IF ~request_setting.given THEN session_setting
    ELSE Update(session_setting, request_setting.dict)

\* json= sets Content-Type: application/json on the request unless the
\* merged headers name a Content-Type (session_post lines 83-85).
WithContentType(headers, json) ==
    IF json /\ "Content-Type" \notin DOMAIN headers
    THEN Update(headers, [n \in {"Content-Type"} |-> "application/json"])
    ELSE headers

\* The timeout a request is sent with. Session.request has its own timeout
\* parameter, None unless passed, and hands it on as it is; a Session has no
\* timeout setting, so session.timeout = 10 (session_post line 213) makes an
\* attribute that no request reads.
EffectiveTimeout(request_timeout, session_timeout) == request_timeout

\* The methods of the walk-throughs, with or without a json body.
Methods == {"GET", "POST", "PUT"}

\* The URLs the walk-throughs call (session_post lines 42-54).
Urls == {"http://api.example.com/users", "http://api.example.com/orders"}

\* The arguments of one call session.<method>(url, json=, headers=, timeout=).
CallArgs ==
    {[method |-> m, url |-> u, json |-> j, headers |-> h, timeout |-> t] :
        m \in Methods, u \in Urls, j \in BOOLEAN,
        h \in {NotGiven} \cup {GivenDict(d) : d \in CallDicts},
        t \in {NotGiven, GivenSecs(5)}}

\* Before any request of the session.
NoRequest ==
    [made |-> FALSE, args |-> [method |-> "GET", url |-> "http://api.example.com/users",
                               json |-> FALSE, headers |-> NotGiven,
                               timeout |-> NotGiven],
     defaults |-> <<>>, defaultTimeout |-> NotGiven, headers |-> <<>>,
     timeout |-> NotGiven]

\* ------------------------------------------- the applications and clients

\* Names of parameters, headers and cookies are sequences of characters, so
\* that the conversions made on them are computed.
session_id == <<"s", "e", "s", "s", "i", "o", "n", "_", "i", "d">>
user_token == <<"u", "s", "e", "r", "_", "t", "o", "k", "e", "n">>
user_id == <<"u", "s", "e", "r", "_", "i", "d">>

\* The cookies login sets and logout deletes (Cookie flow lines 25, 32, 70,
\* 71), and the extra cookie of a single call (session_post line 180).
SessionIdKey == <<"s", "e", "s", "s", "i", "o", "n", "-", "i", "d">>
UserTokenKey == <<"u", "s", "e", "r", "-", "t", "o", "k", "e", "n">>
TempTokenKey == <<"t", "e", "m", "p", "-", "t", "o", "k", "e", "n">>

\* The spellings of the header of the order tests (lines 88, 93, 98), and
\* the parameter's own spelling.
HeaderSpellings == {<<"u", "s", "e", "r", "-", "i", "d">>,
                    <<"U", "s", "e", "r", "-", "I", "d">>,
                    <<"U", "S", "E", "R", "-", "I", "D">>,
                    user_id}

\* str.lower on the letters of these names.
LowerChar(c) ==
    CASE c = "U" -> "u" [] c = "S" -> "s" [] c = "E" -> "e" [] c = "R" -> "r"
      [] c = "I" -> "i" [] c = "D" -> "d" [] OTHER -> c

Lower(name) == [i \in DOMAIN name |-> LowerChar(name[i])]

\* param_name.replace("_", "-")
ConvertUnderscores(name) == [i \in DOMAIN name |-> IF name[i] = "_" THEN "-" ELSE name[i]]

\* A Header() parameter read under its own name, underscores kept.
HeaderAliasUnconverted(param) == param

\* The header a parameter declared with Header() is read from (order line
\* 30): FastAPI converts the underscores of the parameter's name to hyphens.
HeaderAlias(param) == ConvertUnderscores(param)

\* The cookie a parameter declared with Cookie() is read from (Cookie flow
\* lines 46-47, Cookie parameters lines 23-24): the cookie of the parameter's
\* own name. FastAPI converts underscores for Header() parameters only, and
\* cookie names are matched as they are spelled, so session_id is read from
\* the cookie session_id, whatever the notes at Cookie flow lines 149-152
\* and Cookie parameters lines 162-167 say.
CookieAlias(param) == param

\* The value bound to an optional Cookie() parameter: the cookie's text, or
\* the default None.
BindCookie(cookies, param) ==
    IF CookieAlias(param) \in DOMAIN cookies
    THEN StrV(cookies[CookieAlias(param)])
    ELSE NoneV

\* The value bound to a Header() parameter: header names are compared
\* without regard to case. NoneV stands for a header that is not there.
BindHeader(headers, param) ==
    LET matches == {h \in DOMAIN headers : Lower(h) = Lower(HeaderAlias(param))}
    IN  IF matches = {} THEN NoneV
        ELSE StrV(headers[CHOOSE h \in matches : TRUE])

\* Python's truth of a parameter value: None and "" are false.
Truthy(v) == v.t = "str" /\ v.s # <<>>

\* A response: status, the JSON body, the cookies it sets and the names of
\* the cookies it deletes.
NoCookies == <<>>

Body(kind, a, b) == [kind |-> kind, a |-> a, b |-> b]

Response(status, body, setCookies, deleted) ==
    [status |-> status, body |-> body, setCookies |-> setCookies, deleted |-> deleted]

\* FastAPI's answer to a request that lacks a required parameter or body.
ValidationError == Response(422, Body("validation error", NoneV, NoneV), NoCookies, {})

\* The texts the applications answer with.
SessionIdText == <<"abc123xyz">>
UserTokenText == <<"token_xyz789">>
UserIdText == <<"12345">>

\* What a login call sends: the credentials, and whether they travel in the
\* query string or in a json body (Cookie flow lines 114-118).
Credentials ==
    {[via |-> v, username |-> u, password |-> w] :
        v \in {"query", "json"}, u \in {"admin", "guest"}, w \in {"123456", "wrong"}}

\* login of the cookie flow application, lines 14-41. username and password
\* are plain str parameters, which FastAPI reads from the query string: a
\* call that sends them as a json body is answered 422 before login runs.
FlowLogin(credentials) ==
    IF credentials.via # "query" THEN ValidationError
    ELSE IF credentials.username = "admin" /\ credentials.password = "123456"
         THEN Response(200, Body("login succeeded", NoneV, NoneV),
                       [n \in {SessionIdKey, UserTokenKey} |->
                           IF n = SessionIdKey THEN SessionIdText ELSE UserTokenText],
                       {})
         ELSE Response(200, Body("bad credentials", NoneV, NoneV), NoCookies, {})

\* get_user_profile of the cookie flow application, lines 44-62.
FlowGetUserProfile(sid, token) ==
    IF ~Truthy(sid)
    THEN Response(200, Body("not logged in", NoneV, NoneV), NoCookies, {})
    ELSE Response(200, Body("profile", sid, token), NoCookies, {})

\* logout that forgets the second cookie.
FlowLogoutSessionIdOnly ==
    Response(200, Body("logged out", NoneV, NoneV), NoCookies, {SessionIdKey})

\* logout of the cookie flow application, lines 64-72.
FlowLogout ==
    Response(200, Body("logged out", NoneV, NoneV), NoCookies,
             {SessionIdKey, UserTokenKey})

\* get_user_profile that looks at user_token first.
ParamGetUserProfileTokenFirst(sid, token) ==
    IF ~Truthy(token)
    THEN Response(200, Body("missing user_token Cookie", NoneV, NoneV), NoCookies, {})
    ELSE IF ~Truthy(sid)
    THEN Response(200, Body("missing session_id Cookie", NoneV, NoneV), NoCookies, {})
    ELSE Response(200, Body("profile", sid, token), NoCookies, {})

\* get_user_profile of the cookie parameter application, lines 21-52.
ParamGetUserProfile(sid, token) ==
    IF ~Truthy(sid)
    THEN Response(200, Body("missing session_id Cookie", NoneV, NoneV), NoCookies, {})
    ELSE IF ~Truthy(token)
    THEN Response(200, Body("missing user_token Cookie", NoneV, NoneV), NoCookies, {})
    ELSE Response(200, Body("profile", sid, token), NoCookies, {})

\* create_order, order lines 27-53: a request without a valid order body or
\* without the header of user_id is answered 422 before create_order runs.
CreateOrder(order, uid) ==
    IF ~order \/ uid = NoneV THEN ValidationError
    ELSE Response(200, Body("order created", uid, NoneV), NoCookies, {})

\* A session that keeps nothing of a response.
ExtractCookiesToJarNothing(jar, response) == jar

\* What a session keeps of a response (session_vs_requests lines 49-50):
\* the cookies it sets are stored, the cookies it deletes are dropped. All
\* requests go to one host and all cookies have the path "/".
ExtractCookiesToJar(jar, response) ==
    LET stored == Update(jar, response.setCookies)
    IN  [n \in DOMAIN stored \ response.deleted |-> stored[n]]

\* The cookies a session call is sent with leave the per-call cookies out.
MergeCookiesSessionOnly(jar, cookies) == jar

\* The cookies a session call is sent with (session_post lines 93-96 and
\* 178-181): the session's, and those passed to the call.
MergeCookies(jar, cookies) ==
    IF ~cookies.given THEN jar ELSE Update(jar, cookies.dict)

\* The cookies a single session call may pass.
CallCookies == {NotGiven, GivenDict([n \in {TempTokenKey} |-> <<"temp_123">>])}

\* The cookie dictionaries the tests of the cookie parameter application
\* pass (lines 113-118, 136, 143): each name in either spelling, with a
\* text, an empty text, or left out.
ParamCookieNames == {SessionIdKey, session_id, UserTokenKey, user_token}

ParamCookieDicts ==
    UNION {[names -> {SessionIdText, UserTokenText}] : names \in SUBSET ParamCookieNames}
      \cup {[n \in {session_id} |-> <<>>],
            [n \in {session_id, user_token} |->
                IF n = session_id THEN SessionIdText ELSE <<>>]}

\* Before any exchange.
NoExchange ==
    [client |-> "none", app |-> "none", op |-> "none", passed |-> NotGiven,
     cookies |-> NoCookies, headers |-> <<>>, order |-> FALSE,
     sid |-> NoneV, token |-> NoneV, uid |-> NoneV,
     response |-> Response(0, Body("none", NoneV, NoneV), NoCookies, {}),
     jarBefore |-> NoCookies, phaseBefore |-> "never"]

\* ------------------------------------------------------------------ state

VARIABLES
    unified,    \* the interpreter: TRUE when X | Y is a typing.Union (3.14 on)
    cls,        \* the class being constructed: its annotated fields in order
    kwargs,     \* the keyword arguments of the construction
    pc,         \* "call", "constructed", "raised", "dumped"
    attrs,      \* the instance attributes of self
    exc,        \* the exception __init__ raised, or NoExc
    dump,       \* the dictionary model_dump returned, as its items in order
    sHeaders,   \* session.headers
    sTimeout,   \* the attribute session.timeout, NotGiven while never assigned
    lastOp,     \* the last operation on the session: "new", "configure", "request"
    req,        \* the last request of the session: its arguments, the session
                \* defaults it was prepared from, the headers and timeout sent
    earlier,    \* what the requests before the last one passed
    jar,        \* session.cookies of the client that uses a session
    held,       \* response1.cookies of the client that uses requests.post
    phase,      \* the session client's history: "never" logged in, "in", "out"
    http        \* the last exchange: the request sent, the parameters bound,
                \* the response, the jar and the phase it started from

modelVars == <<unified, cls, kwargs, pc, attrs, exc, dump>>
sessionVars == <<sHeaders, sTimeout, lastOp, req, earlier>>
clientVars == <<jar, held, phase, http>>
vars == <<unified, cls, kwargs, pc, attrs, exc, dump, sHeaders, sTimeout, lastOp, req, earlier,
          jar, held, phase, http>>

\* session = requests.Session()
NewSession ==
    /\ sHeaders = LibraryHeaders
    /\ sTimeout = NotGiven
    /\ lastOp = "new"
    /\ req = NoRequest
    /\ earlier = [headers |-> FALSE, timeout |-> FALSE]

\* No application has been called yet.
NewClient ==
    /\ jar = NoCookies
    /\ held = NoCookies
    /\ phase = "never"
    /\ http = NoExchange

Init ==
    /\ unified \in BOOLEAN
    /\ cls \in Classes
    /\ kwargs \in KwargsSet
    /\ pc = "call"
    /\ attrs = NoAttrs
    /\ exc = NoExc
    /\ dump = <<>>
    /\ NewSession
    /\ NewClient

\* cls(**kwargs): SimpleBaseModel.__init__, lines 16-35.
Construct ==
    /\ pc = "call"
    /\ LET r == InitLoop(cls, 1, kwargs, NoAttrs, unified)
       IN  /\ attrs' = r.attrs
           /\ exc' = r.exc
           /\ pc' = IF r.exc = NoExc THEN "constructed" ELSE "raised"
    /\ UNCHANGED <<unified, cls, kwargs, dump>>
    /\ UNCHANGED sessionVars
    /\ UNCHANGED clientVars

\* instance.model_dump(), lines 72-81.
ModelDump ==
    /\ pc = "constructed"
    /\ dump' = DumpLoop(cls, 1, attrs, <<>>)
    /\ pc' = "dumped"
    /\ UNCHANGED <<unified, cls, kwargs, attrs, exc>>
    /\ UNCHANGED sessionVars
    /\ UNCHANGED clientVars

Next == Construct \/ ModelDump

Spec == Init /\ [][Next]_vars

\* --------------------------------------------------- the session at work

\* The walk-throughs start from a new session; the model example is the
\* usage test of lines 95-96, not yet run.
SessionInit ==
    /\ unified = FALSE
    /\ cls = User
    /\ kwargs = [name |-> StrV(<<"Zhang", "San">>), age |-> StrV(<<"2", "5">>),
                 email |-> Absent]
    /\ pc = "call"
    /\ attrs = NoAttrs
    /\ exc = NoExc
    /\ dump = <<>>
    /\ NewSession
    /\ NewClient

\* session.headers.update({...}), session_post lines 253-257.
HeadersUpdate ==
    /\ \E d \in SessionDicts \ {<<>>} : sHeaders' = Update(sHeaders, d)
    /\ lastOp' = "configure"
    /\ UNCHANGED <<sTimeout, req, earlier>>
    /\ UNCHANGED modelVars
    /\ UNCHANGED clientVars

\* session.timeout = 10, session_post line 213.
SetTimeout ==
    /\ sTimeout' = GivenSecs(10)
    /\ lastOp' = "configure"
    /\ UNCHANGED <<sHeaders, req, earlier>>
    /\ UNCHANGED modelVars
    /\ UNCHANGED clientVars

\* session.get / session.post / session.put (url, json=, headers=,
\* timeout=), session_post lines 217-240 and 260-273: the request is
\* prepared from the arguments and the session; the session keeps its
\* settings. As in the walk-throughs, a GET has no json body and a PUT
\* has one.
Request ==
    /\ \E args \in CallArgs :
          /\ args.method = "GET" => ~args.json
          /\ args.method = "PUT" => args.json
          /\ req' = [made |-> TRUE,
                     args |-> args,
                     defaults |-> sHeaders,
                     defaultTimeout |-> sTimeout,
                     headers |-> WithContentType(MergeSetting(args.headers, sHeaders),
                                                 args.json),
                     timeout |-> EffectiveTimeout(args.timeout, sTimeout)]
    /\ earlier' = IF req.made
                  THEN [headers |-> earlier.headers \/ req.args.headers.given,
                        timeout |-> earlier.timeout \/ req.args.timeout.given]
                  ELSE earlier
    /\ lastOp' = "request"
    /\ UNCHANGED <<sHeaders, sTimeout>>
    /\ UNCHANGED modelVars
    /\ UNCHANGED clientVars

SessionNext == HeadersUpdate \/ SetTimeout \/ Request

SessionSpec == SessionInit /\ [][SessionNext]_vars

\* ------------------------------------------- the applications at work

\* The applications are up, no client has called them; the model example
\* and the session of the header walk-throughs are left as they start.
AppInit == SessionInit

\* One exchange of a client with an application.
Exchange(client, app, op, passed, cookies, headers, order, sid, token, uid, response) ==
    [client |-> client, app |-> app, op |-> op, passed |-> passed,
     cookies |-> cookies, headers |-> headers, order |-> order,
     sid |-> sid, token |-> token, uid |-> uid, response |-> response,
     jarBefore |-> jar, phaseBefore |-> phase]

\* session.post(login_url, ...), Cookie flow line 118: the session keeps
\* the cookies of the response.
SessionLogin ==
    /\ \E credentials \in Credentials, cookies \in CallCookies :
          LET response == FlowLogin(credentials)
          IN  /\ http' = Exchange("session", "flow", "login", cookies,
                                  MergeCookies(jar, cookies), <<>>, FALSE,
                                  NoneV, NoneV, NoneV, response)
              /\ jar' = ExtractCookiesToJar(jar, response)
              /\ phase' = IF response.body.kind = "login succeeded" THEN "in" ELSE phase
    /\ UNCHANGED held
    /\ UNCHANGED modelVars
    /\ UNCHANGED sessionVars

\* session.get(profile_url), Cookie flow line 124.
SessionProfile ==
    /\ \E cookies \in CallCookies :
          LET sent == MergeCookies(jar, cookies)
              sid == BindCookie(sent, session_id)
              token == BindCookie(sent, user_token)
              response == FlowGetUserProfile(sid, token)
          IN  /\ http' = Exchange("session", "flow", "profile", cookies, sent, <<>>,
                                  FALSE, sid, token, NoneV, response)
              /\ jar' = ExtractCookiesToJar(jar, response)
    /\ UNCHANGED <<held, phase>>
    /\ UNCHANGED modelVars
    /\ UNCHANGED sessionVars

\* session.post(logout_url), Cookie flow line 130.
SessionLogout ==
    /\ \E cookies \in CallCookies :
          LET response == FlowLogout
          IN  /\ http' = Exchange("session", "flow", "logout", cookies,
                                  MergeCookies(jar, cookies), <<>>, FALSE,
                                  NoneV, NoneV, NoneV, response)
              /\ jar' = ExtractCookiesToJar(jar, response)
    /\ phase' = "out"
    /\ UNCHANGED held
    /\ UNCHANGED modelVars
    /\ UNCHANGED sessionVars

\* An hour passes: the cookies login set with max_age=3600 (Cookie flow
\* lines 27 and 34) leave the jar; it holds no others.
Expire ==
    /\ jar # NoCookies
    /\ jar' = NoCookies
    /\ UNCHANGED <<held, phase, http>>
    /\ UNCHANGED modelVars
    /\ UNCHANGED sessionVars

\* requests.post(login_url, ...), session_vs_requests lines 17-22: the
\* cookies of the response are on response1 and nowhere else.
PlainLogin ==
    /\ \E credentials \in Credentials :
          LET response == FlowLogin(credentials)
          IN  /\ http' = Exchange("plain", "flow", "login", NotGiven, NoCookies, <<>>,
                                  FALSE, NoneV, NoneV, NoneV, response)
              /\ held' = response.setCookies
    /\ UNCHANGED <<jar, phase>>
    /\ UNCHANGED modelVars
    /\ UNCHANGED sessionVars

\* requests.get(profile_url) and requests.get(profile_url,
\* cookies=response1.cookies), session_vs_requests lines 25-29.
PlainProfile ==
    /\ \E passed \in {NotGiven, GivenDict(held)} :
          LET sent == IF passed.given THEN passed.dict ELSE NoCookies
              sid == BindCookie(sent, session_id)
              token == BindCookie(sent, user_token)
          IN  http' = Exchange("plain", "flow", "profile", passed, sent, <<>>, FALSE,
                               sid, token, NoneV, FlowGetUserProfile(sid, token))
    /\ UNCHANGED <<jar, held, phase>>
    /\ UNCHANGED modelVars
    /\ UNCHANGED sessionVars

\* requests.get(url, cookies=cookies) to the cookie parameter application,
\* lines 111-144.
ParamProfile ==
    /\ \E d \in ParamCookieDicts :
          LET sid == BindCookie(d, session_id)
              token == BindCookie(d, user_token)
          IN  http' = Exchange("plain", "param", "profile", GivenDict(d), d, <<>>, FALSE,
                               sid, token, NoneV, ParamGetUserProfile(sid, token))
    /\ UNCHANGED <<jar, held, phase>>
    /\ UNCHANGED modelVars
    /\ UNCHANGED sessionVars

\* requests.post(url, json=order_data, headers=headers) to the order
\* application, lines 81-102, with and without the header and the body.
OrderCreate ==
    /\ \E headers \in {<<>>} \cup {[n \in {h} |-> UserIdText] : h \in HeaderSpellings},
          order \in BOOLEAN :
          LET uid == BindHeader(headers, user_id)
          IN  http' = Exchange("plain", "order", "create_order", NotGiven, NoCookies,
                               headers, order, NoneV, NoneV, uid, CreateOrder(order, uid))
    /\ UNCHANGED <<jar, held, phase>>
    /\ UNCHANGED modelVars
    /\ UNCHANGED sessionVars

AppNext ==
    \/ SessionLogin
    \/ SessionProfile
    \/ SessionLogout
    \/ Expire
    \/ PlainLogin
    \/ PlainProfile
    \/ ParamProfile
    \/ OrderCreate

AppSpec == AppInit /\ [][AppNext]_vars

\* ------------------------------------------------------------ properties

Fields == 1..Len(cls)

Supplied(i) == kwargs[cls[i].name] # Absent

\* __init__ has run, successfully or not.
Called == pc # "call"

\* An instance exists: __init__ returned.
Constructed == pc \in {"constructed", "dumped"}

\* The loop of __init__ got past every field declared before field i: each
\* was supplied and stored, or omitted with a class default to fall back on.
Reached(i) ==
    \A j \in 1..(i - 1) :
        \/ attrs[cls[j].name] # Absent
        \/ ~Supplied(j) /\ cls[j].hasDefault

\* The declared fields that are omitted and have no class default.
MissingRequired == {i \in Fields : ~Supplied(i) /\ ~cls[i].hasDefault}

\* The int-from-text case of _validate_type for a declared hint reduced to
\* the alternative T.
IntFromText(value, T) == T = "int" /\ TypeName(value) = "str"

\* C1 as stated: whenever some declared field is omitted and has no class
\* default, construction fails with a ValueError naming such a field, and
\* no instance is produced.
C1_MissingFieldAlwaysValueError ==
    (Called /\ MissingRequired # {}) =>
        /\ pc = "raised"
        /\ \E i \in MissingRequired : exc = RequiredError(cls[i].name)

\* C1 amended: whenever some declared field is omitted and has no class
\* default, construction fails and no instance is produced; the error is
\* the ValueError naming the first such field in declaration order, unless
\* the value supplied for a field declared before it is rejected first, and
\* then the error is that rejection and not a ValueError.
C1_MissingFieldFails ==
    (Called /\ MissingRequired # {}) =>
        LET m == CHOOSE i \in MissingRequired : \A j \in MissingRequired : i <= j
        IN  /\ pc = "raised"
            /\ \/ Reached(m) /\ exc = RequiredError(cls[m].name)
               \/ /\ ~Reached(m)
                  /\ exc.type # "ValueError"
                  /\ \E j \in 1..(m - 1) : Supplied(j) /\ attrs[cls[j].name] = Absent

C1_Witness ==
    /\ pc = "raised"
    /\ exc = RequiredError("age")
    /\ kwargs["name"] # Absent
    /\ attrs["name"] # Absent

\* C2: a field declared int that is supplied a text that is an integer
\* numeral stores the integer the numeral denotes, not the text ("25"
\* stores 25, "-2" stores -2).
C2_NumeralTextStoredAsInt ==
    Called =>
        \A i \in Fields :
            (/\ Reached(i)
             /\ cls[i].hint = Plain("int")
             /\ Supplied(i)
             /\ TypeName(kwargs[cls[i].name]) = "str"
             /\ IntParses(kwargs[cls[i].name].s))
            => /\ attrs[cls[i].name] = IntV(IntOfText(kwargs[cls[i].name].s))
               /\ (kwargs[cls[i].name].s = <<"2", "5">> => attrs[cls[i].name].n = 25)
               /\ (kwargs[cls[i].name].s = <<"-", "2">> => attrs[cls[i].name].n = 0 - 2)
               /\ (kwargs[cls[i].name].s = <<"2", " ">> => attrs[cls[i].name].n = 2)

C2_Witness ==
    /\ cls = User
    /\ Constructed
    /\ kwargs["age"] = StrV(<<"2", "5">>)
    /\ attrs["age"] = IntV(25)

\* C3: a field declared int that is supplied a text that is no integer
\* numeral makes construction fail with the TypeError of the conversion
\* (never a ValueError), and the text is never stored in the field.
C3_BadNumeralTypeError ==
    Called =>
        \A i \in Fields :
            (/\ cls[i].hint = Plain("int")
             /\ Supplied(i)
             /\ TypeName(kwargs[cls[i].name]) = "str"
             /\ ~IntParses(kwargs[cls[i].name].s))
            => /\ pc = "raised"
               /\ attrs[cls[i].name] = Absent
               /\ Reached(i) =>
                      /\ exc.type = "TypeError"
                      /\ exc.tag = "convert"
                      /\ exc.a = kwargs[cls[i].name].s

C3_Witness ==
    /\ pc = "raised"
    /\ cls = User
    /\ kwargs["name"] = StrV(<<"Zhang", "San">>)
    /\ kwargs["age"] = StrV(<<"a">>)
    /\ exc.type = "TypeError"
    /\ exc.tag = "convert"

\* The alternative a declared hint is reduced to: itself when plain, its
\* first non-None alternative when optional or a union.
Reduced(hint) == hint.args[FirstNonNone(hint.args)]

\* C4 as stated: a supplied value outside the int-from-text case is stored
\* unchanged when its runtime type matches the declared type (optional and
\* union hints reduced to their first non-None alternative), and otherwise
\* construction fails with a TypeError naming the expected and the actual
\* type.
C4_MatchOrTypeError ==
    Called =>
        \A i \in Fields :
            (/\ Reached(i)
             /\ Supplied(i)
             /\ ~IntFromText(kwargs[cls[i].name], Reduced(cls[i].hint)))
            => IF IsInstanceOfClass(kwargs[cls[i].name], Reduced(cls[i].hint))
               THEN attrs[cls[i].name] = kwargs[cls[i].name]
               ELSE /\ pc = "raised"
                    /\ attrs[cls[i].name] = Absent
                    /\ exc.type = "TypeError"
                    /\ exc.tag = "expected"
                    /\ exc.a = <<Reduced(cls[i].hint)>>
                    /\ exc.b = <<TypeName(kwargs[cls[i].name])>>

\* C5 as stated: a field declared Optional[T] or as a union accepts,
\* coerces or rejects any supplied value exactly as a field declared T, its
\* first non-None alternative.
C5_UnionAsFirstAlternative ==
    Called =>
        \A i \in Fields :
            (Reached(i) /\ Supplied(i) /\ cls[i].hint.k # "plain") =>
                LET asPlain == ValidateType(kwargs[cls[i].name],
                                            Plain(Reduced(cls[i].hint)), unified)
                IN  IF asPlain.exc = NoExc
                    THEN attrs[cls[i].name] = asPlain.value
                    ELSE /\ pc = "raised"
                         /\ attrs[cls[i].name] = Absent
                         /\ exc = asPlain.exc

\* C6: model_dump returns the declared fields that have a value on the
\* instance, in declaration order and no other key, each with the stored
\* value: the coerced argument when supplied, the class default when
\* omitted. User(name=..., age="25") dumps name, age 25, email None.
C6_ModelDump ==
    pc = "dumped" =>
        /\ Len(dump) = Len(cls)
        /\ \A i \in Fields :
              /\ dump[i].key = cls[i].name
              /\ dump[i].value =
                    IF Supplied(i) THEN attrs[cls[i].name] ELSE cls[i].default
        /\ (/\ cls = User
            /\ kwargs = [name |-> StrV(<<"Zhang", "San">>), age |-> StrV(<<"2", "5">>),
                         email |-> Absent])
           => dump = <<[key |-> "name", value |-> StrV(<<"Zhang", "San">>)],
                       [key |-> "age", value |-> IntV(25)],
                       [key |-> "email", value |-> NoneV]>>

C6_Witness ==
    /\ pc = "dumped"
    /\ cls = User
    /\ kwargs = [name |-> StrV(<<"Zhang", "San">>), age |-> StrV(<<"2", "5">>),
                 email |-> Absent]
    /\ Len(dump) = 3

\* C7: a declared field omitted from the keyword arguments that has a
\* class default never makes construction fail: no required-field error
\* names it, construction succeeds when it is the last field reached, the
\* field reads as the default on the instance and model_dump shows it with
\* the default.
C7_DefaultUsed ==
    Called =>
        \A i \in Fields :
            (Reached(i) /\ ~Supplied(i) /\ cls[i].hasDefault) =>
                /\ exc # RequiredError(cls[i].name)
                /\ i = Len(cls) => Constructed
                /\ Constructed => GetAttr(cls, attrs, cls[i].name) = cls[i].default
                /\ pc = "dumped" =>
                      \E k \in 1..Len(dump) :
                          dump[k] = [key |-> cls[i].name, value |-> cls[i].default]

C7_Witness ==
    /\ pc = "dumped"
    /\ cls = User
    /\ kwargs["email"] = Absent
    /\ dump[3] = [key |-> "email", value |-> NoneV]

\* A value satisfies a type hint: it is an instance of one of the
\* alternatives of the hint.
Satisfies(value, hint) ==
    \E k \in 1..Len(hint.args) : IsInstanceOfClass(value, hint.args[k])

\* C8 as stated: on every constructed instance every declared field is an
\* attribute whose value satisfies the declared hint, supplied or default.
C8_EveryFieldSatisfiesHint ==
    Constructed =>
        \A i \in Fields :
            /\ HasAttr(cls, attrs, cls[i].name)
            /\ Satisfies(GetAttr(cls, attrs, cls[i].name), cls[i].hint)

\* C8 amended: on every constructed instance every declared field is an
\* attribute; the value of a supplied field satisfies the declared hint,
\* and an omitted field reads as its class default, which is used as
\* declared, without validation.
C8_SuppliedFieldsSatisfyHint ==
    Constructed =>
        \A i \in Fields :
            /\ HasAttr(cls, attrs, cls[i].name)
            /\ Supplied(i) => Satisfies(GetAttr(cls, attrs, cls[i].name), cls[i].hint)
            /\ ~Supplied(i) =>
                  /\ cls[i].hasDefault
                  /\ GetAttr(cls, attrs, cls[i].name) = cls[i].default

C8_Witness ==
    /\ pc = "constructed"
    /\ cls = User
    /\ kwargs["email"] = StrV(<<"a">>)
    /\ attrs["email"] = StrV(<<"a">>)
    /\ attrs["age"] = IntV(5)

\* C9: the headers a session request is sent with are the session's
\* default headers merged with the headers passed to the call: a name only
\* in the session is sent with the session's value, a name only in the call
\* with the call's value, a name in both with the call's value; beyond
\* these only the Content-Type of a json body is sent.
C9_HeadersMerged ==
    req.made =>
        LET session == req.defaults
            call == req.args.headers.dict
        IN  /\ \A n \in DOMAIN session \ DOMAIN call :
                  n \in DOMAIN req.headers /\ req.headers[n] = session[n]
            /\ \A n \in DOMAIN call \ DOMAIN session :
                  n \in DOMAIN req.headers /\ req.headers[n] = call[n]
            /\ \A n \in DOMAIN call \cap DOMAIN session :
                  n \in DOMAIN req.headers /\ req.headers[n] = call[n]
            /\ DOMAIN req.headers \subseteq DOMAIN session \cup DOMAIN call \cup {"Content-Type"}

C9_Witness ==
    /\ req.made
    /\ "Authorization" \in DOMAIN req.defaults
    /\ req.defaults["Authorization"] = "Bearer default_token"
    /\ req.defaults["User-Agent"] = "MyApp/1.0"
    /\ req.args.headers = GivenDict([n \in CallHeaderNames |-> CallValue(n)])
    /\ req.headers["Authorization"] = "Bearer override_token"
    /\ req.headers["User-Agent"] = "MyApp/1.0"
    /\ req.headers["X-Request-ID"] = "req_123"

\* C10 as stated: the headers and timeout passed to one call affect that
\* call only: after the request the session's stored headers and timeout
\* are what they were before it, and a call that passes no headers (no
\* timeout) after earlier calls that did is sent with the session's default
\* headers (the session's timeout).
C10_OverridesAffectOneCall ==
    /\ lastOp = "request" => sHeaders = req.defaults /\ sTimeout = req.defaultTimeout
    /\ (req.made /\ earlier.headers /\ ~req.args.headers.given) =>
          /\ \A n \in DOMAIN req.defaults :
                n \in DOMAIN req.headers /\ req.headers[n] = req.defaults[n]
          /\ DOMAIN req.headers \subseteq DOMAIN req.defaults \cup {"Content-Type"}
    /\ (req.made /\ earlier.timeout /\ ~req.args.timeout.given) =>
          req.timeout = req.defaultTimeout

C12_SessionTimeoutUsed ==
    req.made =>
        req.timeout = IF req.args.timeout.given THEN req.args.timeout
                      ELSE req.defaultTimeout

\* A step in which the client that uses a session (that uses requests.post
\* and requests.get) calls the cookie flow application.
SessionStep == SessionLogin \/ SessionProfile \/ SessionLogout

PlainStep == PlainLogin \/ PlainProfile

C14_CallCookiesMerged ==
    (http.client = "session" /\ http.passed.given) =>
        /\ \A n \in DOMAIN http.jarBefore :
              n \in DOMAIN http.cookies /\ http.cookies[n] = http.jarBefore[n]
        /\ \A n \in DOMAIN http.passed.dict :
              n \in DOMAIN http.cookies /\ http.cookies[n] = http.passed.dict[n]
        /\ DOMAIN http.cookies = DOMAIN http.jarBefore \cup DOMAIN http.passed.dict

C14_Witness ==
    /\ http.client = "session"
    /\ http.passed.given
    /\ SessionIdKey \in DOMAIN http.jarBefore
    /\ SessionIdKey \in DOMAIN http.cookies
    /\ TempTokenKey \in DOMAIN http.cookies
    /\ http.cookies[SessionIdKey] = SessionIdText
    /\ http.cookies[TempTokenKey] = <<"temp_123">>

\* C15: a request to create_order with a valid order and the header spelled
\* user-id, User-Id or USER-ID binds the header's value to user_id and is
\* answered with the created order for that user.
C15_HeaderBoundAnyCase ==
    (/\ http.app = "order"
     /\ http.order
     /\ DOMAIN http.headers # {}
     /\ DOMAIN http.headers \subseteq HeaderSpellings \ {user_id}) =>
        /\ http.uid = StrV(UserIdText)
        /\ http.response.status = 200
        /\ http.response.body = Body("order created", StrV(UserIdText), NoneV)

C15_Witness ==
    /\ http.app = "order"
    /\ http.order
    /\ DOMAIN http.headers = {<<"U", "S", "E", "R", "-", "I", "D">>}
    /\ http.uid = StrV(UserIdText)
    /\ http.response.status = 200
    /\ http.response.body.kind = "order created"

\* C16 as stated: a profile request that carries the cookies session-id and
\* user-token reaches get_user_profile with session_id and user_token set
\* to their values and is answered with the success body.
C16_CookieBoundFromHyphenName ==
    (/\ http.op = "profile"
     /\ SessionIdKey \in DOMAIN http.cookies
     /\ UserTokenKey \in DOMAIN http.cookies) =>
        /\ http.sid = StrV(http.cookies[SessionIdKey])
        /\ http.token = StrV(http.cookies[UserTokenKey])
        /\ http.response.body.kind = "profile"

\* C17 as stated: after a successful login of the session client, and until
\* its logout, each of its profile requests is answered with the success
\* body naming session_id abc123xyz and user_token token_xyz789.
C17_ProfileAfterLogin ==
    (http.client = "session" /\ http.op = "profile" /\ http.phaseBefore = "in") =>
        http.response.body = Body("profile", StrV(SessionIdText), StrV(UserTokenText))

\* C18: logout answers with the logged-out message and deletes the cookies
\* session-id and user-token, whatever the client did before; once the
\* session client has logged out its jar holds neither cookie, and its
\* profile requests are answered not-logged-in until it logs in again.
C18_LogoutClearsCookies ==
    /\ http.op = "logout" =>
          /\ http.response.status = 200
          /\ http.response.body.kind = "logged out"
          /\ http.response.deleted = {SessionIdKey, UserTokenKey}
    /\ phase = "out" => DOMAIN jar \cap {SessionIdKey, UserTokenKey} = {}
    /\ (http.client = "session" /\ http.op = "profile" /\ http.phaseBefore = "out") =>
          http.response.body.kind = "not logged in"

C18_Witness ==
    /\ http.client = "session"
    /\ http.op = "logout"
    /\ http.phaseBefore = "in"
    /\ DOMAIN http.jarBefore = {SessionIdKey, UserTokenKey}
    /\ http.response.body.kind = "logged out"
    /\ phase = "out"
    /\ jar = NoCookies

\* C19: get_user_profile of the cookie parameter application answers with
\* the success body only when session_id and user_token are both set, and
\* then echoes both; when session_id is not set it answers with the
\* session_id error, user_token set or not; a request without cookies gets
\* the session_id error.
C19_SessionIdErrorFirst ==
    http.app = "param" =>
        /\ http.response.body.kind = "profile" =>
              /\ http.sid # NoneV
              /\ http.token # NoneV
              /\ http.response.body = Body("profile", http.sid, http.token)
        /\ http.sid = NoneV => http.response.body.kind = "missing session_id Cookie"
        /\ http.cookies = NoCookies => http.response.body.kind = "missing session_id Cookie"
        /\ (http.sid = StrV(SessionIdText) /\ http.token = StrV(UserTokenText)) =>
              http.response.body.kind = "profile"

C19_Witness ==
    /\ http.app = "param"
    /\ http.sid = StrV(SessionIdText)
    /\ http.token = StrV(UserTokenText)
    /\ http.response.body = Body("profile", StrV(SessionIdText), StrV(UserTokenText))

====
